---- MODULE Spec2Model ----
(***************************************************************************)
(* State machine of the throttled frame processor (createFrameProcessor,   *)
(* src/hooks/useWebcam.js lines 141-346), of the face-analyzer singleton   *)
(* it calls (src/unnamed/part_000) and of the page that registers its      *)
(* handlers (src/unnamed/part_002); and of the pure modules behind them:   *)
(* the flag manager (src/lib/flagManager.js) and the rotation and gaze     *)
(* estimators (src/lib/rotationEstimator.js, src/lib/gazeEstimator.js),    *)
(* each checked under a specification of its own.                          *)
(*                                                                         *)
(* JavaScript runs one task at a time: a timer callback, a call of the     *)
(* public API or the settling of an external promise is one step, and the  *)
(* continuations of settled promises (microtasks) run before the next      *)
(* task.  Every task action is therefore guarded by an empty microtask     *)
(* queue.                                                                  *)
(***************************************************************************)
EXTENDS Integers, Sequences, FiniteSets, TLC

\* ---------------------------------------------------------------- constants

MAX_PROCESSING_MS == 200

MAX_CONSECUTIVE_OVERRUNS == 3

FACE_MISSING_THRESHOLD == 3

LOW_LIGHT_THRESHOLD == 50

\* The entries processAnalysis keeps when it appends one: slice(-19).
HISTORY_KEPT == 19

\* Landmarks of a full face: landmarks.length < 478 is not analysed.
LANDMARK_COUNT == 478

\* ------------------------------------------------------------------- bounds

\* Detector instances the analyzer may construct in one behaviour.
MaxInstances == 2

\* Largest face count a detection returns.
MaxFaces == 1

\* detectFaces calls of other clients of the analyzer pending at one time.
MaxCallers == 2

\* processAnalysis calls made after the warm-up.
MaxCalls == 2

\* Longest warm-up of alternating samples (it fills the history and evicts).
MaxWarm == 21

\* Longest run of zero-face samples in a warm-up.
MaxZeros == 3

\* processAnalysis calls followed object by object on the heap.
MaxHeapCalls == 2

\* Elapsed times of a cycle: below, at and above the budget.
Elapsed == {MAX_PROCESSING_MS - 1, MAX_PROCESSING_MS, MAX_PROCESSING_MS + 1}

\* Average brightness values of a captured frame.
Brightness == {40, 50}

\* The handlers a processor is created with.
Handlers == {"analysis", "disabled", "error"}

\* -------------------------------------------------------------------- state

VARIABLES
    processor,   \* closure state of createFrameProcessor (+ its live intervals)
    analyzer,    \* module state of faceAnalyzer (+ close() calls per instance)
    waiters,     \* detection cycles awaiting initPromise
    microtasks,  \* settled continuations of processFrame, not yet run
    emitted,     \* events of the most recent cycle, in order of emission
    last,        \* inputs and failure cause of the most recent cycle
    page,        \* React state of the page: isAnalyzing, isDisabled
    streak,      \* over-budget cycles in a row since the last start()
    quiet,       \* cleanup() has run and detectFaces was not called since
    op,          \* the handler that ran last
    flagState,   \* flag state of the page (flagManager with gaze tracking)
    countState,  \* flag state of the face-count variant of flagManager
    prev,        \* flagState before the last processAnalysis call
    sample,      \* the analysis passed to the last processAnalysis call
    zeroRun,     \* length of the current run of samples with faceCount = 0
    now,         \* Date.now() at the last processAnalysis call
    calls,       \* processAnalysis calls made after the warm-up
    landmarks,   \* the landmarks handed to the estimators
    rotation,    \* what analyzeRotation(landmarks) returned, once called
    gaze,        \* what analyzeGaze(landmarks) returned, once called
    heap,        \* the objects and arrays of the flag manager, by address
    stateRef,    \* address of the flag state the page holds
    prevRef,     \* address of the state passed to the last processAnalysis
    before,      \* the heap as it was when that call was made
    heapIn,      \* the analysis and the time of that call
    heapCalls    \* processAnalysis calls followed on the heap

flagVars == <<flagState, countState, prev, sample, zeroRun, now, calls>>

schedVars == <<processor, analyzer, waiters, microtasks, emitted, last, page,
               streak, quiet, op>>

estVars == <<landmarks, rotation, gaze>>

\* The state of the pure modules, which the scheduler never touches.
heapVars == <<heap, stateRef, prevRef, before, heapIn, heapCalls>>

pureVars == <<flagVars, estVars, heapVars>>

vars == <<schedVars, pureVars>>

\* ------------------------------------------------------- frame processor

\* setInterval hands out an id no live interval of this closure carries.
setInterval(timers) ==
    CHOOSE id \in 1..(Cardinality(timers) + 1) :
        /\ id \notin timers
        /\ \A j \in 1..(id - 1) : j \in timers

\* stop() that also resets the overrun counter.
stop_resetsOverruns(p) ==
    IF p.intervalId # 0
    THEN [p EXCEPT !.timers = @ \ {p.intervalId}, !.intervalId = 0,
                   !.consecutiveOverruns = 0]
    ELSE p

\* stop() that also abandons the cycle in flight.
stop_clearsProcessing(p) ==
    IF p.intervalId # 0
    THEN [p EXCEPT !.timers = @ \ {p.intervalId}, !.intervalId = 0,
                   !.isProcessing = FALSE]
    ELSE p

\* stop(): clear the interval if one is installed (intervalId 0 is null).
stop(p) ==
    IF p.intervalId # 0
    THEN [p EXCEPT !.timers = @ \ {p.intervalId}, !.intervalId = 0]
    ELSE p

\* start() that clears the breaker flag but keeps the overrun counter.
start_keepsOverruns(p) ==
    IF p.intervalId # 0
    THEN p
    ELSE [p EXCEPT !.isDisabled = FALSE,
                   !.intervalId = setInterval(p.timers),
                   !.timers = @ \cup {setInterval(p.timers)}]

\* start() without the already-running guard.
start_noGuard(p) ==
    [p EXCEPT !.isDisabled = FALSE,
              !.consecutiveOverruns = 0,
              !.intervalId = setInterval(p.timers),
              !.timers = @ \cup {setInterval(p.timers)}]

\* start(): no-op when running, else clear the breaker and install a timer.
start(p) ==
    IF p.intervalId # 0
    THEN p
    ELSE [p EXCEPT !.isDisabled = FALSE,
                   !.consecutiveOverruns = 0,
                   !.intervalId = setInterval(p.timers),
                   !.timers = @ \cup {setInterval(p.timers)}]

\* cleanup(), the processor's part: stop(); canvas = null; ctx = null.
cleanupProcessor(p) == [stop(p) EXCEPT !.canvas = FALSE]

\* getStatus()
getStatus(p) ==
    [isRunning |-> p.intervalId # 0,
     isProcessing |-> p.isProcessing,
     isDisabled |-> p.isDisabled,
     consecutiveOverruns |-> p.consecutiveOverruns]

\* The first guard without the isProcessing test.
skipTick_disabledOnly(p) == p.isDisabled

\* processFrame, first guard: skip if already processing or disabled.
skipTick(p) == p.isProcessing \/ p.isDisabled

\* The budget test with a non-strict threshold.
overBudget_nonStrict(processingTime) == processingTime >= MAX_PROCESSING_MS

\* The budget test of processFrame.
overBudget(processingTime) == processingTime > MAX_PROCESSING_MS

\* The breaker test tripping one overrun late.
breakerTrips_late(p) == p.consecutiveOverruns > MAX_CONSECUTIVE_OVERRUNS

\* The breaker test of processFrame.
breakerTrips(p) == p.consecutiveOverruns >= MAX_CONSECUTIVE_OVERRUNS

\* disable(reason) that sets the flag but leaves the timer installed.
disable_keepsTimer(p, reason, throwing) ==
    [p |-> [p EXCEPT !.isDisabled = TRUE],
     events |-> <<[kind |-> "disabled", reason |-> reason]>>,
     thrown |-> IF "disabled" \in throwing THEN "handler" ELSE "none"]

\* disable(reason): the result of the try block when the call is its last
\* statement; a throwing onDisabled handler leaves through the catch block.
disable(p, reason, throwing) ==
    [p |-> stop([p EXCEPT !.isDisabled = TRUE]),
     events |-> <<[kind |-> "disabled", reason |-> reason]>>,
     thrown |-> IF "disabled" \in throwing THEN "handler" ELSE "none"]

\* Report results: onAnalysis({faceCount, brightness, processingTime}).
report(p, count, brightness, processingTime, throwing) ==
    [p |-> p,
     events |-> <<[kind |-> "analysis",
                   sample |-> [faceCount |-> count,
                               brightness |-> brightness,
                               processingTime |-> processingTime]]>>,
     thrown |-> IF "analysis" \in throwing THEN "handler" ELSE "none"]

\* The overrun check reporting nothing for any over-budget cycle.
checkOverrun_silentOverrun(p, count, brightness, processingTime, throwing) ==
    IF overBudget(processingTime)
    THEN LET q == [p EXCEPT !.consecutiveOverruns = @ + 1]
         IN  IF breakerTrips(q)
             THEN disable(q, "Processing time exceeded budget", throwing)
             ELSE [p |-> q, events |-> <<>>, thrown |-> "none"]
    ELSE report([p EXCEPT !.consecutiveOverruns = 0],
                count, brightness, processingTime, throwing)

\* Check for overrun, then disable or report.
checkOverrun(p, count, brightness, processingTime, throwing) ==
    IF overBudget(processingTime)
    THEN LET q == [p EXCEPT !.consecutiveOverruns = @ + 1]
         IN  IF breakerTrips(q)
             THEN disable(q, "Processing time exceeded budget", throwing)
             ELSE report(q, count, brightness, processingTime, throwing)
    ELSE report([p EXCEPT !.consecutiveOverruns = 0],
                count, brightness, processingTime, throwing)

\* The try block with a brightness sampling that needs no canvas.
tryBlock_noCanvasNeeded(p, settled, detectThrows, count, brightness, processingTime, throwing) ==
    IF settled = "rejected"
    THEN [p |-> p, events |-> <<>>, thrown |-> "init"]
    ELSE IF detectThrows
    THEN [p |-> p, events |-> <<>>, thrown |-> "detector"]
    ELSE checkOverrun(p, count, brightness, processingTime, throwing)

\* The try block after `await detectFaces(frame)`: settled is how the awaited
\* promise settled, detectThrows whether detector.detect raised.
tryBlock(p, settled, detectThrows, count, brightness, processingTime, throwing) ==
    IF settled = "rejected"
    THEN [p |-> p, events |-> <<>>, thrown |-> "init"]
    ELSE IF detectThrows
    THEN [p |-> p, events |-> <<>>, thrown |-> "detector"]
    ELSE IF ~p.canvas
    THEN [p |-> p, events |-> <<>>, thrown |-> "brightness"]
    ELSE checkOverrun(p, count, brightness, processingTime, throwing)

\* A catch block that also resets the overrun counter.
catchBlock_resetsOverruns(r) ==
    IF r.thrown # "none"
    THEN [r EXCEPT !.events = Append(@, [kind |-> "error", cause |-> r.thrown]),
                   !.p.consecutiveOverruns = 0]
    ELSE r

\* catch: onError(error).
catchBlock(r) ==
    IF r.thrown # "none"
    THEN [r EXCEPT !.events = Append(@, [kind |-> "error", cause |-> r.thrown])]
    ELSE r

\* isProcessing cleared at the end of the try block instead of in finally.
finallyBlock_successOnly(r) ==
    IF r.thrown = "none" THEN [r EXCEPT !.p.isProcessing = FALSE] ELSE r

\* finally: isProcessing = false.
finallyBlock(r) == [r EXCEPT !.p.isProcessing = FALSE]

\* captureFrame(): initCanvas() when there is no canvas, then drawImage.
\* outcome "throwInit": creating the canvas raised; "throwDraw": drawImage did.
captureFrame(p, outcome) ==
    IF outcome = "throwInit" /\ ~p.canvas
    THEN [p |-> p, events |-> <<>>, thrown |-> "capture"]
    ELSE [p |-> [p EXCEPT !.canvas = TRUE],
          events |-> <<>>,
          thrown |-> IF outcome = "ok" THEN "none" ELSE "capture"]

\* ------------------------------------------------------------ face analyzer

\* cleanup() of the analyzer that closes the instance but keeps the reference.
cleanupDetector_keepsInstance(a) ==
    IF a.detectorInstance # 0
    THEN [a EXCEPT !.closeCalls[a.detectorInstance] = @ + 1,
                   !.initPromise = "null"]
    ELSE a

\* cleanup() of the analyzer: close and forget the instance if there is one.
cleanupDetector(a) ==
    IF a.detectorInstance # 0
    THEN [a EXCEPT !.closeCalls[a.detectorInstance] = @ + 1,
                   !.detectorInstance = 0,
                   !.initPromise = "null"]
    ELSE a

\* isInitialized()
isInitialized(a) == a.detectorInstance # 0

\* initializeDetector() that does not look for an initialisation in progress.
initializeDetector_noPromiseCheck(a) ==
    IF a.detectorInstance # 0
    THEN a
    ELSE [a EXCEPT !.initPromise = "pending", !.initPc = "wasm", !.iifes = @ + 1]

\* initializeDetector(): return the instance, or the initialisation in
\* progress, or start the IIFE (iifes counts the IIFEs that are running).
initializeDetector(a) ==
    IF a.detectorInstance # 0
    THEN a
    ELSE IF a.initPromise # "null"
    THEN a
    ELSE [a EXCEPT !.initPromise = "pending", !.initPc = "wasm", !.iifes = @ + 1]

\* The IIFE of initializeDetector fulfils: detectorInstance = created instance.
initFulfilled(a) ==
    [a EXCEPT !.detectorInstance = Len(a.closeCalls) + 1,
              !.closeCalls = Append(@, 0),
              !.initPromise = "fulfilled",
              !.initPc = "none",
              !.iifes = @ - 1]

\* The IIFE rejects and its catch leaves the rejected initPromise in place.
initRejected_keepsPromise(a) ==
    [a EXCEPT !.initPc = "none", !.iifes = @ - 1]

\* The IIFE of initializeDetector rejects: catch resets initPromise.
initRejected(a) ==
    [a EXCEPT !.initPromise = "null", !.initPc = "none", !.iifes = @ - 1]

\* ------------------------------------------------------------- flag manager

\* Brightness is kept in tenths: 495 is 49.5.
tenths(x) == 10 * x

\* Math.round of a non-negative brightness in tenths (halves round up).
round(brightness) == (brightness + 5) \div 10

\* gazeDirection || null
orNull(g) == IF g = "undefined" THEN "null" ELSE g

\* Array.prototype.sort() orders strings by code unit.
FlagRank ==
    [f \in {"FACE_MISSING", "FACE_OK", "FACE_ROTATED", "GAZE_AWAY", "LOW_LIGHT",
            "MULTIPLE_FACES"} |->
        CASE f = "FACE_MISSING" -> 1
          [] f = "FACE_OK" -> 2
          [] f = "FACE_ROTATED" -> 3
          [] f = "GAZE_AWAY" -> 4
          [] f = "LOW_LIGHT" -> 5
          [] f = "MULTIPLE_FACES" -> 6]

sorted(a) == SortSeq(a, LAMBDA x, y : FlagRank[x] < FlagRank[y])

\* arraysEqual comparing the arrays by reference: never equal.
arraysEqual_byReference(a, b) == FALSE

\* arraysEqual comparing the lengths only.
arraysEqual_lengthOnly(a, b) == Len(a) = Len(b)

\* arraysEqual(a, b): same length and the same elements once sorted.
arraysEqual(a, b) ==
    IF Len(a) # Len(b)
    THEN FALSE
    ELSE \A idx \in 1..Len(a) : sorted(a)[idx] = sorted(b)[idx]

\* slice(-20): one entry too many is kept.
sliceLast_keepsOneMore(h) ==
    IF Len(h) <= HISTORY_KEPT + 1 THEN h
    ELSE SubSeq(h, Len(h) - HISTORY_KEPT, Len(h))

\* slice(0, 19): the oldest entries are kept instead of the newest.
sliceLast_keepsOldest(h) ==
    IF Len(h) <= HISTORY_KEPT THEN h ELSE SubSeq(h, 1, HISTORY_KEPT)

\* state.history.slice(-19)
sliceLast(h) ==
    IF Len(h) <= HISTORY_KEPT THEN h
    ELSE SubSeq(h, Len(h) - HISTORY_KEPT + 1, Len(h))

\* The debounce test with a strict threshold.
missingFlagged_strict(consecutiveMissing) ==
    consecutiveMissing > FACE_MISSING_THRESHOLD

\* consecutiveMissing >= FACE_MISSING_THRESHOLD
missingFlagged(consecutiveMissing) ==
    consecutiveMissing >= FACE_MISSING_THRESHOLD

\* The lighting test with a non-strict threshold.
lowLight_nonStrict(brightness) == brightness <= tenths(LOW_LIGHT_THRESHOLD)

\* brightness < LOW_LIGHT_THRESHOLD
lowLight(brightness) == brightness < tenths(LOW_LIGHT_THRESHOLD)

\* The single-face branch testing the gaze before the rotation.
singleFace_gazeFirst(analysis) ==
    IF analysis.isLookingAway
    THEN [flags |-> <<"GAZE_AWAY">>, gaze |-> analysis.gazeDirection]
    ELSE IF analysis.isRotated
    THEN [flags |-> <<"FACE_ROTATED">>, gaze |-> "null"]
    ELSE [flags |-> <<"FACE_OK">>, gaze |-> "null"]

\* The single-face branch raising both flags for a rotated, averted face.
singleFace_bothFlags(analysis) ==
    IF analysis.isRotated /\ analysis.isLookingAway
    THEN [flags |-> <<"FACE_ROTATED", "GAZE_AWAY">>,
          gaze |-> analysis.gazeDirection]
    ELSE IF analysis.isRotated
    THEN [flags |-> <<"FACE_ROTATED">>, gaze |-> "null"]
    ELSE IF analysis.isLookingAway
    THEN [flags |-> <<"GAZE_AWAY">>, gaze |-> analysis.gazeDirection]
    ELSE [flags |-> <<"FACE_OK">>, gaze |-> "null"]

\* Single face detected: rotation first, then gaze, else all good.
singleFace(analysis) ==
    IF analysis.isRotated
    THEN [flags |-> <<"FACE_ROTATED">>, gaze |-> "null"]
    ELSE IF analysis.isLookingAway
    THEN [flags |-> <<"GAZE_AWAY">>, gaze |-> analysis.gazeDirection]
    ELSE [flags |-> <<"FACE_OK">>, gaze |-> "null"]

\* The face-count branches without the reset for several faces.
faceBranch_noResetOnMultiple(state, analysis) ==
    IF analysis.faceCount > 1
    THEN [flags |-> <<"MULTIPLE_FACES">>, gaze |-> "null",
          consecutiveMissing |-> state.consecutiveMissing]
    ELSE IF analysis.faceCount = 0
    THEN [flags |-> IF missingFlagged(state.consecutiveMissing + 1)
                    THEN <<"FACE_MISSING">> ELSE <<>>,
          gaze |-> "null",
          consecutiveMissing |-> state.consecutiveMissing + 1]
    ELSE [flags |-> singleFace(analysis).flags,
          gaze |-> singleFace(analysis).gaze,
          consecutiveMissing |-> 0]

\* The three face-count branches of processAnalysis.
faceBranch(state, analysis) ==
    IF analysis.faceCount > 1
    THEN [flags |-> <<"MULTIPLE_FACES">>, gaze |-> "null",
          consecutiveMissing |-> 0]
    ELSE IF analysis.faceCount = 0
    THEN [flags |-> IF missingFlagged(state.consecutiveMissing + 1)
                    THEN <<"FACE_MISSING">> ELSE <<>>,
          gaze |-> "null",
          consecutiveMissing |-> state.consecutiveMissing + 1]
    ELSE [flags |-> singleFace(analysis).flags,
          gaze |-> singleFace(analysis).gaze,
          consecutiveMissing |-> 0]

\* Check lighting (independent of face detection).
withLighting(flags, analysis) ==
    IF lowLight(analysis.brightness) THEN Append(flags, "LOW_LIGHT") ELSE flags

\* flagsChanged without the gaze-direction clause.
flagsChanged_flagsOnly(state, newFlags, analysis, currentGazeDirection) ==
    ~arraysEqual(state.currentFlags, newFlags)

\* flagsChanged of processAnalysis.
flagsChanged(state, newFlags, analysis, currentGazeDirection) ==
    \/ ~arraysEqual(state.currentFlags, newFlags)
    \/ (analysis.isLookingAway /\ state.gazeDirection # currentGazeDirection)

\* The history entry processAnalysis appends.
historyEntry(newFlags, analysis, timestamp) ==
    [timestamp |-> timestamp,
     flags |-> newFlags,
     details |-> [faceCount |-> analysis.faceCount,
                  isRotated |-> analysis.isRotated,
                  isLookingAway |-> analysis.isLookingAway,
                  gazeDirection |-> orNull(analysis.gazeDirection),
                  brightness |-> round(analysis.brightness)]]

\* createInitialState(); lastUpdate 0 is null.
createInitialState ==
    [currentFlags |-> <<>>, gazeDirection |-> "null", consecutiveMissing |-> 0,
     lastUpdate |-> 0, history |-> <<>>]

\* processAnalysis(state, analysis), timestamp being Date.now().
processAnalysis(state, analysis, timestamp) ==
    LET branch == faceBranch(state, analysis)
        newFlags == withLighting(branch.flags, analysis)
    IN  [currentFlags |-> newFlags,
         gazeDirection |-> branch.gaze,
         consecutiveMissing |-> branch.consecutiveMissing,
         lastUpdate |-> timestamp,
         history |-> IF flagsChanged(state, newFlags, analysis, branch.gaze)
                     THEN Append(sliceLast(state.history),
                                 historyEntry(newFlags, analysis, timestamp))
                     ELSE state.history]

\* createInitialState() of the face-count variant.
createInitialCountState ==
    [currentFlags |-> <<>>, faceCount |-> 0, consecutiveMissing |-> 0,
     lastUpdate |-> 0, history |-> <<>>]

\* processAnalysis(state, analysis) of the face-count variant.
processAnalysisCount(state, analysis, timestamp) ==
    LET branch ==
            IF analysis.faceCount > 1
            THEN [flags |-> <<"MULTIPLE_FACES">>, consecutiveMissing |-> 0]
            ELSE IF analysis.faceCount = 0
            THEN [flags |-> IF missingFlagged(state.consecutiveMissing + 1)
                            THEN <<"FACE_MISSING">> ELSE <<>>,
                  consecutiveMissing |-> state.consecutiveMissing + 1]
            ELSE [flags |-> <<"FACE_OK">>, consecutiveMissing |-> 0]
        newFlags == withLighting(branch.flags, analysis)
    IN  [currentFlags |-> newFlags,
         faceCount |-> analysis.faceCount,
         consecutiveMissing |-> branch.consecutiveMissing,
         lastUpdate |-> timestamp,
         history |-> IF ~arraysEqual(state.currentFlags, newFlags)
                     THEN Append(sliceLast(state.history),
                                 [timestamp |-> timestamp,
                                  flags |-> newFlags,
                                  details |-> [faceCount |-> analysis.faceCount,
                                               brightness |->
                                                   round(analysis.brightness)]])
                     ELSE state.history]

\* The analyses handed to processAnalysis: every combination for a single
\* face, and with no face or several faces the fields of a face either all
\* unset or all set.
Samples ==
    [faceCount : {1},
     isRotated : BOOLEAN,
     isLookingAway : {FALSE},
     gazeDirection : {"undefined", "CENTER"},
     brightness : {495, 500}]
    \cup
    [faceCount : {1},
     isRotated : BOOLEAN,
     isLookingAway : {TRUE},
     gazeDirection : {"LEFT", "RIGHT"},
     brightness : {495, 500}]
    \cup
    [faceCount : {0, 2},
     isRotated : {FALSE},
     isLookingAway : {FALSE},
     gazeDirection : {"undefined"},
     brightness : {495, 500}]
    \cup
    [faceCount : {0, 2},
     isRotated : {TRUE},
     isLookingAway : {TRUE},
     gazeDirection : {"LEFT"},
     brightness : {495, 500}]

\* A bright sample with the given face count and nothing else to report.
Plain(faceCount) ==
    [faceCount |-> faceCount, isRotated |-> FALSE, isLookingAway |-> FALSE,
     gazeDirection |-> "CENTER", brightness |-> 2000]

\* The state after feeding samples one by one, the i-th at time i.
RECURSIVE Run(_)
Run(samples) ==
    IF samples = <<>>
    THEN createInitialState
    ELSE processAnalysis(Run(SubSeq(samples, 1, Len(samples) - 1)),
                         samples[Len(samples)], Len(samples))

\* ------------------------------------------- flag manager, object by object
\* The heap is a sequence of cells and an address is an index into it: each
\* array literal, spread and object literal of the code allocates a cell.

Array(items) == [kind |-> "array", items |-> items]

\* Allocate a cell: the new heap and the address of the cell.
alloc(h, cell) == [heap |-> Append(h, cell), ref |-> Len(h) + 1]

\* createInitialState(): two empty arrays and the state object.
createInitialHeap ==
    <<Array(<<>>), Array(<<>>),
      [kind |-> "state", currentFlags |-> 1, gazeDirection |-> "null",
       consecutiveMissing |-> 0, lastUpdate |-> 0, history |-> 2]>>

\* The entry pushed onto the state's own history array.
appendEntry_push(h, historyRef, entry) ==
    LET e == alloc(h, entry)
    IN  [heap |-> [e.heap EXCEPT ![historyRef].items = Append(@, e.ref)],
         ref |-> historyRef]

\* [...state.history.slice(-19), {...}]: a new entry in a new array.
appendEntry(h, historyRef, entry) ==
    LET e == alloc(h, entry)
    IN  alloc(e.heap, Array(Append(sliceLast(e.heap[historyRef].items), e.ref)))

\* processAnalysis(state, analysis) on the heap: the new heap and the address
\* of the returned object.  arraysEqual sorts copies, so it writes nothing.
processAnalysisHeap(h, ref, analysis, timestamp) ==
    LET state == h[ref]
        branch == faceBranch(state, analysis)
        newFlags == alloc(h, Array(withLighting(branch.flags, analysis)))
        changed ==
            flagsChanged([currentFlags |-> h[state.currentFlags].items,
                          gazeDirection |-> state.gazeDirection],
                         newFlags.heap[newFlags.ref].items, analysis,
                         branch.gaze)
        history ==
            IF changed
            THEN appendEntry(newFlags.heap, state.history,
                             historyEntry(newFlags.ref, analysis, timestamp))
            ELSE [heap |-> newFlags.heap, ref |-> state.history]
    IN  alloc(history.heap,
              [kind |-> "state",
               currentFlags |-> newFlags.ref,
               gazeDirection |-> branch.gaze,
               consecutiveMissing |-> branch.consecutiveMissing,
               lastUpdate |-> timestamp,
               history |-> history.ref])

\* --------------------------------------------------------------- estimators
\* Coordinates are whole numbers of a unit of 0.0005 and every quotient is an
\* exact fraction [n, d] with d >= 0; d = 0 is a division by zero.

Abs(a) == IF a < 0 THEN -a ELSE a

Min(a, b) == IF a < b THEN a ELSE b

Max(a, b) == IF a > b THEN a ELSE b

Frac(n, d) == [n |-> n, d |-> d]

Less(q, r) == q.n * r.d < r.n * q.d

Neg(q) == Frac(-q.n, q.d)

Inverse(q) == Frac(q.d, q.n)

\* (q + r) / 2
Mean(q, r) == Frac(q.n * r.d + r.n * q.d, 2 * q.d * r.d)

\* Math.abs(q - r)
AbsDiff(q, r) == Frac(Abs(q.n * r.d - r.n * q.d), q.d * r.d)

\* Math.max(0, 1 - (q + r))
OneMinusSum(q, r) ==
    LET n == q.d * r.d - (q.n * r.d + r.n * q.d)
    IN  IF n < 0 THEN Frac(0, 1) ELSE Frac(n, q.d * r.d)

\* q.toFixed(3), as a number of thousandths (halves round away from zero).
toFixed3(q) ==
    LET t == (2 * 1000 * Abs(q.n) + q.d) \div (2 * q.d)
    IN  IF q.n < 0 THEN -t ELSE t

\* Math.sqrt of a perfect square (the inputs make every distance whole).
Sqrt(n) == CHOOSE r \in 0..200 : r * r = n

YAW_THRESHOLD == Frac(6, 10)

ROLL_THRESHOLD == Frac(15, 100)

HORIZONTAL_THRESHOLD == Frac(15, 100)

VERTICAL_THRESHOLD == Frac(25, 100)

MIN_EYE_HEIGHT_RATIO == Frac(2, 100)

\* Landmark indices of the two estimators.
LANDMARKS ==
    [NOSE_TIP |-> 1, RIGHT_EAR |-> 234, LEFT_EAR |-> 454,
     RIGHT_EYE_OUTER |-> 33, LEFT_EYE_OUTER |-> 263,
     RIGHT_IRIS |-> 468, LEFT_IRIS |-> 473,
     RIGHT_EYE_INNER |-> 133, RIGHT_EYE_TOP |-> 27, RIGHT_EYE_BOTTOM |-> 23,
     LEFT_EYE_INNER |-> 362, LEFT_EYE_TOP |-> 257, LEFT_EYE_BOTTOM |-> 253]

\* An array entry that is undefined or null.
Missing == [present |-> FALSE, x |-> 0, y |-> 0]

Point(x, y) == [present |-> TRUE, x |-> x, y |-> y]

\* distance(p1, p2)
distance(p1, p2) ==
    IF ~p1.present \/ ~p2.present
    THEN 0
    ELSE Sqrt((p1.x - p2.x) * (p1.x - p2.x) + (p1.y - p2.y) * (p1.y - p2.y))

\* The yaw thresholds taken non-strictly.
yawOfRatio_nonStrict(ratio) ==
    IF ~Less(YAW_THRESHOLD, ratio) THEN "LEFT"
    ELSE IF ~Less(ratio, Inverse(YAW_THRESHOLD)) THEN "RIGHT"
    ELSE "CENTER"

\* ratio < YAW_THRESHOLD, ratio > 1 / YAW_THRESHOLD
yawOfRatio(ratio) ==
    IF Less(ratio, YAW_THRESHOLD) THEN "LEFT"
    ELSE IF Less(Inverse(YAW_THRESHOLD), ratio) THEN "RIGHT"
    ELSE "CENTER"

\* estimateYaw without the test for a zero distance.
estimateYaw_noZeroCheck(lm) ==
    LET nose == lm.at[LANDMARKS.NOSE_TIP]
        leftEar == lm.at[LANDMARKS.LEFT_EAR]
        rightEar == lm.at[LANDMARKS.RIGHT_EAR]
    IN  IF ~nose.present \/ ~leftEar.present \/ ~rightEar.present
        THEN "CENTER"
        ELSE yawOfRatio(Frac(distance(nose, rightEar), distance(nose, leftEar)))

\* estimateYaw(landmarks)
estimateYaw(lm) ==
    LET nose == lm.at[LANDMARKS.NOSE_TIP]
        leftEar == lm.at[LANDMARKS.LEFT_EAR]
        rightEar == lm.at[LANDMARKS.RIGHT_EAR]
        leftEarDist == distance(nose, leftEar)
        rightEarDist == distance(nose, rightEar)
    IN  IF ~nose.present \/ ~leftEar.present \/ ~rightEar.present
        THEN "CENTER"
        ELSE IF leftEarDist = 0 \/ rightEarDist = 0
        THEN "CENTER"
        ELSE yawOfRatio(Frac(rightEarDist, leftEarDist))

\* estimateRoll(landmarks)
estimateRoll(lm) ==
    LET leftEye == lm.at[LANDMARKS.LEFT_EYE_OUTER]
        rightEye == lm.at[LANDMARKS.RIGHT_EYE_OUTER]
        eyeDistance == distance(leftEye, rightEye)
        heightDiff == Frac(leftEye.y - rightEye.y, eyeDistance)
    IN  IF ~leftEye.present \/ ~rightEye.present
        THEN "LEVEL"
        ELSE IF eyeDistance = 0
        THEN "LEVEL"
        ELSE IF Less(ROLL_THRESHOLD, heightDiff) THEN "TILTED_RIGHT"
        ELSE IF Less(heightDiff, Neg(ROLL_THRESHOLD)) THEN "TILTED_LEFT"
        ELSE "LEVEL"

\* The length test letting one landmark too few through.
tooFew_offByOne(lm) == ~lm.present \/ lm.length < LANDMARK_COUNT - 1

\* !landmarks || landmarks.length < 478
tooFew(lm) == ~lm.present \/ lm.length < LANDMARK_COUNT

\* analyzeRotation(landmarks)
analyzeRotation(lm) ==
    IF tooFew(lm)
    THEN [yaw |-> "UNKNOWN", roll |-> "UNKNOWN", isRotated |-> FALSE]
    ELSE [yaw |-> estimateYaw(lm),
          roll |-> estimateRoll(lm),
          isRotated |-> estimateYaw(lm) # "CENTER"]

\* getNormalizedOffset(irisPos, minPos, maxPos); a range below 0.001 is a
\* range below 2 units.
getNormalizedOffset(irisPos, minPos, maxPos) ==
    LET range == Abs(maxPos - minPos)
        twice == 2 * irisPos - (minPos + maxPos)
    IN  IF range < 2
        THEN Frac(0, 1)
        ELSE Frac(Max(-range, Min(range, twice)), range)

\* getHorizontalOffset(iris, inner, outer)
getHorizontalOffset(iris, inner, outer) ==
    IF ~iris.present \/ ~inner.present \/ ~outer.present
    THEN Frac(0, 1)
    ELSE getNormalizedOffset(iris.x, Min(inner.x, outer.x), Max(inner.x, outer.x))

\* getVerticalOffset(iris, top, bottom, eyeWidth)
getVerticalOffset(iris, top, bottom, eyeWidth) ==
    IF ~iris.present \/ ~top.present \/ ~bottom.present
    THEN [offset |-> Frac(0, 1), valid |-> FALSE]
    ELSE IF eyeWidth > 0
            /\ Less(Frac(Abs(bottom.y - top.y), eyeWidth), MIN_EYE_HEIGHT_RATIO)
    THEN [offset |-> Frac(0, 1), valid |-> FALSE]
    ELSE [offset |-> getNormalizedOffset(iris.y, Min(top.y, bottom.y),
                                         Max(top.y, bottom.y)),
          valid |-> TRUE]

\* Math.abs((outer?.x || 0) - (inner?.x || 0))
eyeWidthOf(outer, inner) ==
    Abs((IF outer.present THEN outer.x ELSE 0)
        - (IF inner.present THEN inner.x ELSE 0))

\* The locals of analyzeGaze up to avgVertical.
gazeOffsets(lm) ==
    LET rightIris == lm.at[LANDMARKS.RIGHT_IRIS]
        leftIris == lm.at[LANDMARKS.LEFT_IRIS]
        rightInner == lm.at[LANDMARKS.RIGHT_EYE_INNER]
        rightOuter == lm.at[LANDMARKS.RIGHT_EYE_OUTER]
        rightTop == lm.at[LANDMARKS.RIGHT_EYE_TOP]
        rightBottom == lm.at[LANDMARKS.RIGHT_EYE_BOTTOM]
        leftInner == lm.at[LANDMARKS.LEFT_EYE_INNER]
        leftOuter == lm.at[LANDMARKS.LEFT_EYE_OUTER]
        leftTop == lm.at[LANDMARKS.LEFT_EYE_TOP]
        leftBottom == lm.at[LANDMARKS.LEFT_EYE_BOTTOM]
        rightHorizontal == getHorizontalOffset(rightIris, rightInner, rightOuter)
        leftHorizontal == getHorizontalOffset(leftIris, leftInner, leftOuter)
        rightVertResult == getVerticalOffset(rightIris, rightTop, rightBottom,
                                             eyeWidthOf(rightOuter, rightInner))
        leftVertResult == getVerticalOffset(leftIris, leftTop, leftBottom,
                                            eyeWidthOf(leftOuter, leftInner))
        verticalValid == rightVertResult.valid /\ leftVertResult.valid
    IN  [rightHorizontal |-> rightHorizontal,
         leftHorizontal |-> leftHorizontal,
         avgHorizontal |-> Mean(rightHorizontal, leftHorizontal),
         rightVertResult |-> rightVertResult,
         leftVertResult |-> leftVertResult,
         verticalValid |-> verticalValid,
         avgVertical |-> IF verticalValid
                         THEN Mean(rightVertResult.offset, leftVertResult.offset)
                         ELSE Frac(0, 1)]

\* The horizontal thresholds taken non-strictly.
horizontalGazeOf_nonStrict(avgHorizontal) ==
    IF ~Less(Neg(HORIZONTAL_THRESHOLD), avgHorizontal) THEN "LEFT"
    ELSE IF ~Less(avgHorizontal, HORIZONTAL_THRESHOLD) THEN "RIGHT"
    ELSE "CENTER"

\* Determine horizontal gaze direction.
horizontalGazeOf(avgHorizontal) ==
    IF Less(avgHorizontal, Neg(HORIZONTAL_THRESHOLD)) THEN "LEFT"
    ELSE IF Less(HORIZONTAL_THRESHOLD, avgHorizontal) THEN "RIGHT"
    ELSE "CENTER"

\* Determine vertical gaze direction.
verticalGazeOf(verticalValid, avgVertical) ==
    IF verticalValid
    THEN IF Less(avgVertical, Neg(VERTICAL_THRESHOLD)) THEN "UP"
         ELSE IF Less(VERTICAL_THRESHOLD, avgVertical) THEN "DOWN"
         ELSE "CENTER"
    ELSE "CENTER"

\* directions.join('_')
RECURSIVE join(_)
join(directions) ==
    IF Len(directions) = 0 THEN ""
    ELSE IF Len(directions) = 1 THEN directions[1]
    ELSE directions[1] \o "_" \o join(Tail(directions))

\* The combined direction with the horizontal label pushed first.
gazeDirectionOf_horizontalFirst(verticalGaze, horizontalGaze) ==
    LET directions ==
            (IF horizontalGaze # "CENTER" THEN <<horizontalGaze>> ELSE <<>>)
            \o (IF verticalGaze # "CENTER" THEN <<verticalGaze>> ELSE <<>>)
    IN  IF Len(directions) > 0 THEN join(directions) ELSE "CENTER"

\* Combined gaze direction string.
gazeDirectionOf(verticalGaze, horizontalGaze) ==
    LET directions ==
            (IF verticalGaze # "CENTER" THEN <<verticalGaze>> ELSE <<>>)
            \o (IF horizontalGaze # "CENTER" THEN <<horizontalGaze>> ELSE <<>>)
    IN  IF Len(directions) > 0 THEN join(directions) ELSE "CENTER"

\* analyzeGaze from its locals on: labels, confidence and details.
gazeResult(m) ==
    LET horizontalGaze == horizontalGazeOf(m.avgHorizontal)
        verticalGaze == verticalGazeOf(m.verticalValid, m.avgVertical)
        hDiff == AbsDiff(m.rightHorizontal, m.leftHorizontal)
        vDiff == IF m.verticalValid
                 THEN AbsDiff(m.rightVertResult.offset, m.leftVertResult.offset)
                 ELSE Frac(0, 1)
    IN  [horizontalGaze |-> horizontalGaze,
         verticalGaze |-> verticalGaze,
         gazeDirection |-> gazeDirectionOf(verticalGaze, horizontalGaze),
         isLookingAway |-> horizontalGaze # "CENTER" \/ verticalGaze # "CENTER",
         confidence |-> OneMinusSum(hDiff, vDiff),
         details |-> [isNull |-> FALSE,
                      rightH |-> toFixed3(m.rightHorizontal),
                      leftH |-> toFixed3(m.leftHorizontal),
                      avgH |-> toFixed3(m.avgHorizontal),
                      rightV |-> toFixed3(m.rightVertResult.offset),
                      leftV |-> toFixed3(m.leftVertResult.offset),
                      avgV |-> toFixed3(m.avgVertical),
                      vValid |-> m.verticalValid]]

\* analyzeGaze(landmarks)
analyzeGaze(lm) ==
    IF tooFew(lm)
    THEN [horizontalGaze |-> "UNKNOWN",
          verticalGaze |-> "UNKNOWN",
          isLookingAway |-> FALSE,
          gazeDirection |-> "UNKNOWN",
          confidence |-> Frac(0, 1),
          details |-> [isNull |-> TRUE]]
    ELSE gazeResult(gazeOffsets(lm))

\* The landmark indices the estimators read.
Indices == {LANDMARKS[k] : k \in DOMAIN LANDMARKS}

\* landmarks is null or undefined.
NoLandmarks == [present |-> FALSE, length |-> 0, at |-> [i \in Indices |-> Missing]]

\* An eye: iris centre, corners and eyelid midpoints.
Eye(iris, inner, outer, top, bottom) ==
    [iris |-> iris, inner |-> inner, outer |-> outer, top |-> top,
     bottom |-> bottom]

\* An array of the given length; entries at or past the length are undefined.
Face(length, nose, rightEar, leftEar, rightEye, leftEye) ==
    LET all == [i \in Indices |->
                   CASE i = LANDMARKS.NOSE_TIP -> nose
                     [] i = LANDMARKS.RIGHT_EAR -> rightEar
                     [] i = LANDMARKS.LEFT_EAR -> leftEar
                     [] i = LANDMARKS.RIGHT_IRIS -> rightEye.iris
                     [] i = LANDMARKS.RIGHT_EYE_INNER -> rightEye.inner
                     [] i = LANDMARKS.RIGHT_EYE_OUTER -> rightEye.outer
                     [] i = LANDMARKS.RIGHT_EYE_TOP -> rightEye.top
                     [] i = LANDMARKS.RIGHT_EYE_BOTTOM -> rightEye.bottom
                     [] i = LANDMARKS.LEFT_IRIS -> leftEye.iris
                     [] i = LANDMARKS.LEFT_EYE_INNER -> leftEye.inner
                     [] i = LANDMARKS.LEFT_EYE_OUTER -> leftEye.outer
                     [] i = LANDMARKS.LEFT_EYE_TOP -> leftEye.top
                     [] i = LANDMARKS.LEFT_EYE_BOTTOM -> leftEye.bottom]
    IN  [present |-> TRUE,
         length |-> length,
         at |-> [i \in Indices |-> IF i < length THEN all[i] ELSE Missing]]

\* Where the iris is: outside the corner, across both thresholds, centred.
IrisX == {-30, -4, -3, 0, 3, 4}

IrisY == {-10, -3, -2, 0, 2, 3}

\* Eyes centred at (cx, 100), 40 wide and 16 high, outer corner on the side
\* given by out (-1 or 1); then eyes that are closed, barely open, collapsed
\* to a point, or have a landmark missing.
Eyes(cx, out) ==
    {Eye(Point(cx + dx, 100 + dy), Point(cx - 20 * out, 100),
         Point(cx + 20 * out, 100), Point(cx, 92), Point(cx, 108)) :
        dx \in IrisX, dy \in IrisY}
    \cup
    {Eye(Point(cx, 92), Point(cx - 20 * out, 100), Point(cx + 20 * out, 100),
         Point(cx, 100), Point(cx, 100)),
     Eye(Point(cx, 101), Point(cx - 50 * out, 100), Point(cx + 50 * out, 100),
         Point(cx, 99), Point(cx, 101)),
     Eye(Point(cx, 101), Point(cx - 50 * out, 100), Point(cx + 50 * out, 100),
         Point(cx, 100), Point(cx, 101)),
     Eye(Point(cx, 100), Point(cx, 100), Point(cx, 100), Point(cx, 100),
         Point(cx, 100)),
     Eye(Missing, Point(cx - 20 * out, 100), Point(cx + 20 * out, 100),
         Point(cx, 92), Point(cx, 108)),
     Eye(Point(cx, 90), Point(cx - 20 * out, 100), Point(cx + 20 * out, 100),
         Missing, Point(cx, 108)),
     Eye(Point(cx + 4, 90), Missing, Point(cx + 20 * out, 100),
         Point(cx, 92), Point(cx, 108))}

RightEyes == Eyes(120, -1)

LeftEyes == Eyes(180, 1)

\* An open eye looking straight ahead.
OpenEye(cx, out) ==
    Eye(Point(cx, 100), Point(cx - 20 * out, 100), Point(cx + 20 * out, 100),
        Point(cx, 92), Point(cx, 108))

Nose == Point(150, 120)

\* Right ears at distances 0, 40, 50, 60, 60 and 100 from the nose.
RightEars ==
    {Missing, Nose, Point(110, 120), Point(120, 80), Point(90, 120),
     Point(102, 84), Point(50, 120)}

\* Left ears at distances 0, 40, 60, 100 and 100 from the nose.
LeftEars ==
    {Missing, Nose, Point(190, 120), Point(210, 120), Point(250, 120),
     Point(230, 180)}

\* Outer eye corners of a head that is level, tilted either way, or whose
\* corners coincide or are missing.
LeftCorners ==
    {Point(200, 100), Point(148, 136), Point(148, 64), Point(100, 100), Missing}

\* Lengths around the 478 landmarks of a full face.
Lengths == {LANDMARK_COUNT - 1, LANDMARK_COUNT, LANDMARK_COUNT + 1}

\* Faces that differ in the landmarks analyzeRotation reads.
RotationInputs ==
    {Face(length, nose, rightEar, leftEar, OpenEye(120, -1),
          [OpenEye(180, 1) EXCEPT !.outer = corner]) :
        length \in Lengths, nose \in {Missing, Nose}, rightEar \in RightEars,
        leftEar \in LeftEars, corner \in LeftCorners}

\* Faces that differ in the landmarks analyzeGaze reads.
GazeInputs ==
    {Face(length, Nose, Point(110, 120), Point(250, 120), rightEye, leftEye) :
        length \in Lengths, rightEye \in RightEyes, leftEye \in LeftEyes}

LandmarkInputs ==
    {NoLandmarks, Face(0, Missing, Missing, Missing, OpenEye(120, -1),
                       OpenEye(180, 1))}
    \cup RotationInputs \cup GazeInputs

\* ---------------------------------------------------------------------- page

\* handleDisabled: setIsDisabled(true); setIsAnalyzing(false).
handleDisabled(pg) == [pg EXCEPT !.isDisabled = TRUE, !.isAnalyzing = FALSE]

\* The handlers of the page applied to the events of a cycle.
deliver(pg, events) ==
    IF \E i \in 1..Len(events) : events[i].kind = "disabled"
    THEN handleDisabled(pg)
    ELSE pg

\* The auto-start effect's guard without the isDisabled test.
autoStartGuard_ignoresDisabled(pg) == ~pg.isAnalyzing

\* The auto-start effect's guard (the camera is active).
autoStartGuard(pg) == ~pg.isAnalyzing /\ ~pg.isDisabled

\* -------------------------------------------------------------------- steps

Op(name) == [name |-> name, repeat |-> op.name = name]

NoCycle == [thrown |-> "none", timed |-> FALSE]

SchedInit ==
    /\ processor = [intervalId |-> 0, timers |-> {}, isProcessing |-> FALSE,
                    consecutiveOverruns |-> 0, isDisabled |-> FALSE,
                    canvas |-> FALSE]
    /\ analyzer = [detectorInstance |-> 0, initPromise |-> "null",
                   initPc |-> "none", iifes |-> 0, closeCalls |-> <<>>]
    /\ waiters = <<>>
    /\ microtasks = <<>>
    /\ emitted = <<>>
    /\ last = NoCycle
    /\ page = [isAnalyzing |-> FALSE, isDisabled |-> FALSE]
    /\ streak = 0
    /\ quiet = FALSE
    /\ op = [name |-> "create", repeat |-> FALSE]

FlagStart ==
    /\ flagState = createInitialState
    /\ countState = createInitialCountState
    /\ prev = createInitialState
    /\ sample = Plain(1)
    /\ zeroRun = 0
    /\ now = 0
    /\ calls = 0

\* No estimator has been called on the landmarks lm.
EstStart(lm) ==
    /\ landmarks = lm
    /\ rotation = [done |-> FALSE]
    /\ gaze = [done |-> FALSE]

\* The page's first flag state, just created.
HeapStart ==
    /\ heap = createInitialHeap
    /\ stateRef = Len(createInitialHeap)
    /\ prevRef = Len(createInitialHeap)
    /\ before = createInitialHeap
    /\ heapIn = [analysis |-> Plain(1), timestamp |-> 0]
    /\ heapCalls = 0

Init == SchedInit /\ FlagStart /\ EstStart(NoLandmarks) /\ HeapStart

EstInit ==
    SchedInit /\ FlagStart /\ HeapStart /\ \E lm \in LandmarkInputs : EstStart(lm)

\* handleAnalysis, followed on the heap: the page keeps the returned object.
ProcessAnalysisHeap ==
    /\ heapCalls < MaxHeapCalls
    /\ \E analysis \in Samples :
          LET r == processAnalysisHeap(heap, stateRef, analysis, heapCalls + 1)
          IN  /\ heap' = r.heap
              /\ stateRef' = r.ref
              /\ heapIn' = [analysis |-> analysis, timestamp |-> heapCalls + 1]
    /\ prevRef' = stateRef
    /\ before' = heap
    /\ heapCalls' = heapCalls + 1
    /\ UNCHANGED <<schedVars, flagVars, estVars>>

\* The frame processor calls analyzeRotation on the detected landmarks.
AnalyzeRotation ==
    /\ ~rotation.done
    /\ rotation' = [done |-> TRUE, value |-> analyzeRotation(landmarks)]
    /\ UNCHANGED <<landmarks, gaze, schedVars, flagVars, heapVars>>

\* The frame processor calls analyzeGaze on the detected landmarks.
AnalyzeGaze ==
    /\ ~gaze.done
    /\ gaze' = [done |-> TRUE, value |-> analyzeGaze(landmarks)]
    /\ UNCHANGED <<landmarks, rotation, schedVars, flagVars, heapVars>>

\* handleAnalysis with the given analysis, at time now + 1.
Feed(analysis) ==
    /\ flagState' = processAnalysis(flagState, analysis, now + 1)
    /\ countState' = processAnalysisCount(countState, analysis, now + 1)
    /\ prev' = flagState
    /\ sample' = analysis
    /\ zeroRun' = IF analysis.faceCount = 0 THEN zeroRun + 1 ELSE 0
    /\ now' = now + 1
    /\ UNCHANGED <<schedVars, estVars, heapVars>>

\* Warm-up: a single face and no face in turn, every sample changing the flags.
WarmUp ==
    /\ calls = 0
    /\ now < MaxWarm
    /\ zeroRun <= 1
    /\ Feed(Plain((now + 1) % 2))
    /\ UNCHANGED calls

\* Warm-up: a run of zero-face samples.
WarmUpMissing ==
    /\ calls = 0
    /\ zeroRun >= 1
    /\ zeroRun < MaxZeros
    /\ Feed(Plain(0))
    /\ UNCHANGED calls

\* The page's handleAnalysis: setFlagState(prev => processAnalysis(prev, analysis)).
ProcessAnalysis ==
    /\ calls < MaxCalls
    /\ \E analysis \in Samples : Feed(analysis)
    /\ calls' = calls + 1

\* start() called by a client of the processor.
Start ==
    /\ microtasks = <<>>
    /\ processor' = start(processor)
    /\ streak' = IF processor.intervalId = 0 THEN 0 ELSE streak
    /\ op' = Op("start")
    /\ UNCHANGED pureVars
    /\ UNCHANGED quiet
    /\ UNCHANGED <<analyzer, waiters, microtasks, emitted, last, page>>

\* The page's auto-start effect fires startAnalysis.
AutoStart ==
    /\ microtasks = <<>>
    /\ autoStartGuard(page)
    /\ processor' = start(processor)
    /\ page' = [page EXCEPT !.isDisabled = FALSE, !.isAnalyzing = TRUE]
    /\ streak' = IF processor.intervalId = 0 THEN 0 ELSE streak
    /\ op' = Op("startAnalysis")
    /\ UNCHANGED pureVars
    /\ UNCHANGED quiet
    /\ UNCHANGED <<analyzer, waiters, microtasks, emitted, last>>

\* stop() called by a client of the processor.
Stop ==
    /\ microtasks = <<>>
    /\ processor' = stop(processor)
    /\ op' = Op("stop")
    /\ UNCHANGED pureVars
    /\ UNCHANGED quiet
    /\ UNCHANGED <<analyzer, waiters, microtasks, emitted, last, page, streak>>

\* cleanup() called by a client of the processor.
Cleanup ==
    /\ microtasks = <<>>
    /\ processor' = cleanupProcessor(processor)
    /\ analyzer' = cleanupDetector(analyzer)
    /\ quiet' = TRUE
    /\ op' = Op("cleanup")
    /\ UNCHANGED pureVars
    /\ UNCHANGED <<waiters, microtasks, emitted, last, page, streak>>

\* A tick of a live interval that processFrame drops.
TickSkipped ==
    /\ microtasks = <<>>
    /\ \E t \in processor.timers, ready \in BOOLEAN :
          skipTick(processor) \/ ~ready
    /\ op' = Op("tick.skipped")
    /\ UNCHANGED pureVars
    /\ UNCHANGED quiet
    /\ UNCHANGED <<processor, analyzer, waiters, microtasks, emitted, last,
                   page, streak>>

\* A tick whose captureFrame raises: catch and finally run in the same task.
TickCaptureFails ==
    /\ microtasks = <<>>
    /\ \E t \in processor.timers, outcome \in {"throwInit", "throwDraw"} :
          /\ ~skipTick(processor)
          /\ LET r == finallyBlock(catchBlock(
                          captureFrame([processor EXCEPT !.isProcessing = TRUE],
                                       outcome)))
             IN  /\ processor' = r.p
                 /\ emitted' = r.events
                 /\ last' = [thrown |-> r.thrown, timed |-> FALSE]
                 /\ page' = deliver(page, r.events)
    /\ streak' = 0
    /\ op' = Op("tick.captureFailed")
    /\ UNCHANGED pureVars
    /\ UNCHANGED quiet
    /\ UNCHANGED <<analyzer, waiters, microtasks>>

\* `await initializeDetector()` in detectFaces, called by owner: with an
\* instance the continuation is queued at once, else it waits for initPromise.
Await(owner) ==
    /\ analyzer' = initializeDetector(analyzer)
    /\ IF isInitialized(analyzer)
       THEN /\ microtasks' = Append(microtasks,
                                    [owner |-> owner, settled |-> "fulfilled",
                                     instance |-> analyzer.detectorInstance])
            /\ UNCHANGED waiters
       ELSE /\ waiters' = Append(waiters, owner)
            /\ UNCHANGED microtasks

\* A tick that captures a frame and calls detectFaces.
TickDetect ==
    /\ microtasks = <<>>
    /\ \E t \in processor.timers :
          /\ ~skipTick(processor)
          /\ processor' =
                captureFrame([processor EXCEPT !.isProcessing = TRUE], "ok").p
    /\ emitted' = <<>>
    /\ last' = NoCycle
    /\ Await("cycle")
    /\ quiet' = FALSE
    /\ op' = Op("tick.detect")
    /\ UNCHANGED pureVars
    /\ UNCHANGED <<page, streak>>

\* The continuations of the callers awaiting initPromise, in order.
Reactions(settled, instance) ==
    [i \in 1..Len(waiters) |->
        [owner |-> waiters[i], settled |-> settled, instance |-> instance]]

\* detectFaces called by another client of the analyzer module.
DetectFaces ==
    /\ microtasks = <<>>
    /\ Cardinality({i \in 1..Len(waiters) : waiters[i] = "ext"}) < MaxCallers
    /\ Await("ext")
    /\ quiet' = FALSE
    /\ op' = Op("detectFaces")
    /\ UNCHANGED pureVars
    /\ UNCHANGED <<processor, emitted, last, page, streak>>

\* detectFaces resumes for another client: detector.detect(image), return.
ResumeCaller ==
    /\ microtasks # <<>>
    /\ Head(microtasks).owner = "ext"
    /\ microtasks' = Tail(microtasks)
    /\ op' = Op("detectFaces.resume")
    /\ UNCHANGED pureVars
    /\ UNCHANGED <<processor, analyzer, waiters, emitted, last, page, streak,
                   quiet>>

\* cleanup() of the analyzer called by another client of the module; without
\* an instance the call does nothing and is left out.
CleanupDetector ==
    /\ microtasks = <<>>
    /\ isInitialized(analyzer)
    /\ analyzer' = cleanupDetector(analyzer)
    /\ quiet' = TRUE
    /\ op' = Op("cleanupDetector")
    /\ UNCHANGED pureVars
    /\ UNCHANGED <<processor, waiters, microtasks, emitted, last, page, streak>>

\* FilesetResolver.forVisionTasks settles.
InitWasmDone ==
    /\ microtasks = <<>>
    /\ analyzer.initPc = "wasm"
    /\ \E ok \in BOOLEAN :
          IF ok
          THEN /\ analyzer' = [analyzer EXCEPT !.initPc = "create"]
               /\ UNCHANGED <<waiters, microtasks>>
          ELSE /\ analyzer' = initRejected(analyzer)
               /\ microtasks' = Reactions("rejected", 0)
               /\ waiters' = <<>>
    /\ op' = Op("init.wasm")
    /\ UNCHANGED pureVars
    /\ UNCHANGED quiet
    /\ UNCHANGED <<processor, emitted, last, page, streak>>

\* FaceDetector.createFromOptions settles.
InitCreateDone ==
    /\ microtasks = <<>>
    /\ analyzer.initPc = "create"
    /\ \E ok \in BOOLEAN :
          IF ok /\ Len(analyzer.closeCalls) < MaxInstances
          THEN /\ analyzer' = initFulfilled(analyzer)
               /\ microtasks' = Reactions("fulfilled", Len(analyzer.closeCalls) + 1)
               /\ waiters' = <<>>
          ELSE /\ analyzer' = initRejected(analyzer)
               /\ microtasks' = Reactions("rejected", 0)
               /\ waiters' = <<>>
    /\ op' = Op("init.create")
    /\ UNCHANGED pureVars
    /\ UNCHANGED quiet
    /\ UNCHANGED <<processor, emitted, last, page, streak>>

\* processFrame resumes after `await detectFaces(frame)`.
Resume ==
    /\ microtasks # <<>>
    /\ Head(microtasks).owner = "cycle"
    /\ \E detectThrows \in BOOLEAN, count \in 0..MaxFaces, b \in Brightness,
          e \in Elapsed, throwing \in SUBSET Handlers :
          LET m == Head(microtasks)
              t == tryBlock(processor, m.settled, detectThrows, count, b, e,
                            throwing)
              r == finallyBlock(catchBlock(t))
              timed == t.thrown \in {"none", "handler"}
          IN  /\ processor' = r.p
              /\ emitted' = r.events
              /\ last' = IF timed
                         THEN [thrown |-> t.thrown, timed |-> TRUE,
                               processingTime |-> e,
                               faceCount |-> count, brightness |-> b]
                         ELSE [thrown |-> t.thrown, timed |-> FALSE]
              /\ page' = deliver(page, r.events)
              /\ streak' = IF timed /\ overBudget(e)
                           THEN IF streak < MAX_CONSECUTIVE_OVERRUNS
                                THEN streak + 1 ELSE streak
                           ELSE 0
    /\ microtasks' = Tail(microtasks)
    /\ op' = Op("resume")
    /\ UNCHANGED pureVars
    /\ UNCHANGED quiet
    /\ UNCHANGED <<analyzer, waiters>>

Next ==
    \/ Start
    \/ AutoStart
    \/ Stop
    \/ Cleanup
    \/ TickSkipped
    \/ TickCaptureFails
    \/ TickDetect
    \/ InitWasmDone
    \/ InitCreateDone
    \/ Resume
    \/ DetectFaces
    \/ ResumeCaller
    \/ CleanupDetector

Spec == Init /\ [][Next]_vars

\* The event loop runs every queued continuation.
LiveSpec == Spec /\ WF_vars(Resume) /\ WF_vars(ResumeCaller)

EstNext == AnalyzeRotation \/ AnalyzeGaze

\* The two estimators applied to landmark arrays.
EstSpec == EstInit /\ [][EstNext]_vars

HeapNext == ProcessAnalysisHeap

\* The flag manager's objects across processAnalysis calls.
HeapSpec == Init /\ [][HeapNext]_vars

FlagNext == WarmUp \/ WarmUpMissing \/ ProcessAnalysis

\* The flag manager alone: arbitrary samples after a warm-up.
FlagSpec == Init /\ [][FlagNext]_vars

\* ------------------------------------------------------------------- claims

\* Detection cycles in flight: awaiting initPromise or queued to resume.
InFlight ==
    Cardinality({i \in 1..Len(waiters) : waiters[i] = "cycle"})
    + Cardinality({i \in 1..Len(microtasks) : microtasks[i].owner = "cycle"})

\* A step in which processFrame resumes after its await.
ResumeStep ==
    /\ Len(microtasks') < Len(microtasks)
    /\ Head(microtasks).owner = "cycle"

Kinds(events) == [i \in 1..Len(events) |-> events[i].kind]

Count(events, kind) == Cardinality({i \in 1..Len(events) : events[i].kind = kind})

\* The breaker has tripped in the cycle just completed.
Tripped ==
    /\ processor.isDisabled
    /\ processor.intervalId = 0
    /\ processor.timers = {}
    /\ Count(emitted, "disabled") = 1
    /\ emitted[1] = [kind |-> "disabled",
                     reason |-> "Processing time exceeded budget"]
    /\ Count(emitted, "analysis") = 0

\* C1: the cycle that completes as the third over-budget cycle in a row
\* (counted from the last start() that installed a timer), and likewise every
\* over-budget cycle that finds consecutiveOverruns at 2, sets isDisabled,
\* cancels the periodic timer, emits exactly one disabled event carrying the
\* reason string and emits no analysis event.
C1_BreakerTrips ==
    [][(/\ ResumeStep
        /\ last'.timed
        /\ overBudget(last'.processingTime)
        /\ \/ streak' = MAX_CONSECUTIVE_OVERRUNS
           \/ processor.consecutiveOverruns = MAX_CONSECUTIVE_OVERRUNS - 1)
        => Tripped']_vars

C1_Witness ==
    /\ op.name = "resume"
    /\ streak = MAX_CONSECUTIVE_OVERRUNS
    /\ last.timed /\ overBudget(last.processingTime)
    /\ processor.isDisabled
    /\ Kinds(emitted) = <<"disabled">>

\* C2: while isDisabled is true no tick starts a cycle and no event is
\* emitted, and isDisabled returns to false only in a start() call made by a
\* client, never through the page's auto-start effect or any other step.
C2_DisabledTerminal ==
    [][processor.isDisabled
        => /\ op'.name \notin {"tick.detect", "tick.captureFailed"}
           /\ ~processor'.isProcessing
           /\ InFlight' = 0
           /\ emitted' = emitted
           /\ (~processor'.isDisabled => op'.name = "start")]_vars

C2_Witness ==
    /\ processor.isDisabled
    /\ op.name = "cleanup"
    /\ ~page.isAnalyzing

\* C3: at most one detection cycle is in flight, and a tick that fires while
\* isProcessing is true is dropped: it changes nothing and leaves nothing
\* behind to run later.
C3_SkipIfBusy ==
    /\ [](InFlight <= 1)
    /\ [][(processor.isProcessing
           /\ op'.name \in {"tick.skipped", "tick.detect", "tick.captureFailed"})
          => /\ op'.name = "tick.skipped"
             /\ UNCHANGED <<processor, analyzer, waiters, microtasks, emitted,
                            last, page>>]_vars

C3_Witness ==
    /\ op.name = "tick.skipped"
    /\ processor.isProcessing
    /\ InFlight = 1

\* C4: every cycle that completes with elapsed <= 200 ms resets
\* consecutiveOverruns to 0 and emits an analysis event carrying the sample.
C4_OnBudgetResets ==
    [][(ResumeStep /\ last'.timed /\ last'.processingTime <= MAX_PROCESSING_MS)
        => /\ processor'.consecutiveOverruns = 0
           /\ streak' = 0
           /\ emitted'[1] = [kind |-> "analysis",
                             sample |-> [faceCount |-> last'.faceCount,
                                         brightness |-> last'.brightness,
                                         processingTime |-> last'.processingTime]]]_vars

C4_Witness ==
    /\ op.name = "resume"
    /\ last.timed /\ last.processingTime = MAX_PROCESSING_MS
    /\ processor.consecutiveOverruns = 0
    /\ Kinds(emitted) = <<"analysis">>

\* C5: a cycle in which capture, detector initialisation or the detector call
\* raises emits exactly an error event carrying the cause, no analysis event,
\* and neither its first nor its last step changes consecutiveOverruns.
C5_HardFailure ==
    [][/\ (op'.name = "tick.detect"
            => processor'.consecutiveOverruns = processor.consecutiveOverruns)
       /\ ((ResumeStep \/ op'.name = "tick.captureFailed")
           /\ last'.thrown \in {"capture", "init", "detector"})
          => /\ emitted' = <<[kind |-> "error", cause |-> last'.thrown]>>
             /\ processor'.consecutiveOverruns = processor.consecutiveOverruns
             /\ ~processor'.isProcessing]_vars

C5_Witness ==
    /\ op.name = "resume"
    /\ last.thrown = "detector"
    /\ processor.consecutiveOverruns = 2
    /\ Kinds(emitted) = <<"error">>

\* C6: isProcessing is true only while a cycle is in flight, and once the
\* awaited detector call has settled the cycle clears it, whatever its outcome.
C6_ProcessingCleared ==
    /\ [](processor.isProcessing => InFlight > 0)
    /\ ((processor.isProcessing /\ microtasks # <<>>) ~> ~processor.isProcessing)

C6_Witness ==
    /\ op.name = "resume"
    /\ last.thrown = "init"
    /\ ~processor.isProcessing

\* C7: at most one of onAnalysis, onDisabled and onError is invoked per cycle.
C7_MutuallyExclusive == Len(emitted) <= 1

\* C8: start() while running changes nothing; start() while not running
\* clears isDisabled and consecutiveOverruns and installs exactly one timer;
\* no second timer ever exists.
C8_StartIdempotent ==
    /\ [](Cardinality(processor.timers) <= 1)
    /\ [][op'.name \in {"start", "startAnalysis"}
          => IF processor.intervalId # 0
             THEN processor' = processor
             ELSE /\ ~processor'.isDisabled
                  /\ processor'.consecutiveOverruns = 0
                  /\ processor'.intervalId # 0
                  /\ processor'.timers = {processor'.intervalId}
                  /\ processor'.isProcessing = processor.isProcessing
                  /\ processor'.canvas = processor.canvas]_vars

C8_Witness ==
    /\ op = [name |-> "start", repeat |-> TRUE]
    /\ Cardinality(processor.timers) = 1
    /\ processor.consecutiveOverruns > 0

\* C9: after stop() isRunning is false and isDisabled, consecutiveOverruns and
\* isProcessing are as before the call; a second stop() changes nothing.
C9_StopFrame ==
    [][op'.name = "stop"
        => /\ getStatus(processor') = [getStatus(processor) EXCEPT !.isRunning = FALSE]
           /\ processor'.timers = {}
           /\ processor'.canvas = processor.canvas
           /\ (op.name = "stop" => processor' = processor)
           /\ UNCHANGED <<analyzer, waiters, microtasks, emitted, last>>]_vars

C9_Witness ==
    /\ op = [name |-> "stop", repeat |-> TRUE]
    /\ processor.isProcessing
    /\ InFlight = 1
    /\ ~getStatus(processor).isRunning

\* C10: cleanup() from any state, also never started or called twice in a row,
\* leaves the processor not running, without canvas and without detector
\* instance, and no detector instance is ever closed twice.
C10_CleanupSafe ==
    /\ [](\A i \in 1..Len(analyzer.closeCalls) : analyzer.closeCalls[i] <= 1)
    /\ [][op'.name = "cleanup"
          => /\ ~getStatus(processor').isRunning
             /\ processor'.timers = {}
             /\ ~processor'.canvas
             /\ ~isInitialized(analyzer')
             /\ analyzer'.initPc = analyzer.initPc]_vars

C10_Witness ==
    /\ op = [name |-> "cleanup", repeat |-> TRUE]
    /\ \E i \in 1..Len(analyzer.closeCalls) : analyzer.closeCalls[i] = 1
    /\ ~isInitialized(analyzer)

\* Nothing of the analyzer or of its callers is pending.
Idle == analyzer.initPc = "none" /\ waiters = <<>> /\ microtasks = <<>>

\* C11: once cleanup() has run and the work pending at that moment has
\* finished, no detector instance is initialised unless detectFaces was called
\* after the cleanup.
C11_CleanupReleases == (quiet /\ Idle) => ~isInitialized(analyzer)

\* A step in which the IIFE of initializeDetector creates the instance.
CreatedStep == Len(analyzer'.closeCalls) > Len(analyzer.closeCalls)

\* C12: at most one initialisation runs at a time, every caller that waits
\* waits for that one, and when it fulfils it has constructed one detector,
\* which every waiting caller obtains.
C12_SingleFlight ==
    /\ [](analyzer.iifes <= 1)
    /\ [](waiters # <<>> => analyzer.iifes = 1 /\ analyzer.initPromise = "pending")
    /\ [][CreatedStep
          => /\ Len(analyzer'.closeCalls) = Len(analyzer.closeCalls) + 1
             /\ analyzer'.detectorInstance = Len(analyzer'.closeCalls)
             /\ waiters' = <<>>
             /\ Len(microtasks') = Len(waiters)
             /\ \A i \in 1..Len(microtasks') :
                   microtasks'[i] = [owner |-> waiters[i],
                                     settled |-> "fulfilled",
                                     instance |-> analyzer'.detectorInstance]]_vars

C12_Witness ==
    /\ op.name = "init.create"
    /\ Len(analyzer.closeCalls) = 1
    /\ Len(microtasks) = 3
    /\ \A i \in 1..Len(microtasks) :
          /\ microtasks[i].settled = "fulfilled"
          /\ microtasks[i].instance = analyzer.detectorInstance

\* ------------------------------------------------------ flag manager claims

Has(flags, f) == \E i \in 1..Len(flags) : flags[i] = f

FlagSet(flags) == {flags[i] : i \in 1..Len(flags)}

\* C13: starting from the initial flag state, after any sequence of
\* processAnalysis calls with any samples the history holds at most 20 entries,
\* in the gaze-tracking flag manager and in its face-count variant.
C13_HistoryCapped ==
    /\ Len(flagState.history) <= 20
    /\ Len(countState.history) <= 20

\* Both histories are full and have already evicted their first entry.
C13_Witness ==
    /\ Len(flagState.history) = 20
    /\ Len(countState.history) = 20
    /\ flagState.history[1].timestamp > 1
    /\ countState.history[1].timestamp > 1
    /\ calls > 0

\* Face counts 1,1,0,0,0,1 fed to the initial state.
Example == [i \in 1..6 |-> Plain(IF i \in {3, 4, 5} THEN 0 ELSE 1)]

MissingAfter(k) == Has(Run(SubSeq(Example, 1, k)).currentFlags, "FACE_MISSING")

\* C14: FACE_MISSING is debounced: after a sample, currentFlags contains
\* FACE_MISSING exactly when that sample has no face and is at least the third
\* of an unbroken run of zero-face samples; for the face counts 1,1,0,0,0,1 the
\* flag is absent after the first two zeros, present after the third and absent
\* after the final 1.
C14_Debounce ==
    /\ now > 0 =>
          (Has(flagState.currentFlags, "FACE_MISSING")
              <=> (sample.faceCount = 0 /\ zeroRun >= 3))
    /\ now = 0 =>
          /\ ~MissingAfter(3)
          /\ ~MissingAfter(4)
          /\ MissingAfter(5)
          /\ ~MissingAfter(6)

\* The third zero-face sample in a row raises the flag.
C14_Witness ==
    /\ calls > 0
    /\ zeroRun = 3
    /\ Has(flagState.currentFlags, "FACE_MISSING")
    /\ ~Has(prev.currentFlags, "FACE_MISSING")

\* C15: after every sample with one face or several consecutiveMissing is 0
\* whatever it was, and after every sample with no face it is one more than
\* before; so it always equals the length of the current run of zero-face
\* samples.
C15_ConsecutiveMissing ==
    /\ flagState.consecutiveMissing = zeroRun
    /\ now > 0 =>
          /\ sample.faceCount >= 1 => flagState.consecutiveMissing = 0
          /\ sample.faceCount = 0 =>
                flagState.consecutiveMissing = prev.consecutiveMissing + 1

\* Several faces end a run of two or more zero-face samples.
C15_Witness ==
    /\ calls > 0
    /\ sample.faceCount > 1
    /\ prev.consecutiveMissing >= 2
    /\ flagState.consecutiveMissing = 0

FaceFlags == {"FACE_ROTATED", "GAZE_AWAY", "FACE_OK"}

\* C16: for a sample with a single face the flags contain FACE_ROTATED if
\* isRotated, otherwise GAZE_AWAY if isLookingAway, otherwise FACE_OK, and never
\* two of them; the new state's gazeDirection is the sample's gazeDirection
\* when GAZE_AWAY is flagged and null in every other case.
C16_SingleFacePriority ==
    now > 0 =>
        /\ sample.faceCount = 1 =>
              /\ FlagSet(flagState.currentFlags) \cap FaceFlags =
                    {IF sample.isRotated THEN "FACE_ROTATED"
                     ELSE IF sample.isLookingAway THEN "GAZE_AWAY"
                     ELSE "FACE_OK"}
              /\ Cardinality(FlagSet(flagState.currentFlags)) =
                    Len(flagState.currentFlags)
        /\ flagState.gazeDirection =
              IF Has(flagState.currentFlags, "GAZE_AWAY")
              THEN sample.gazeDirection
              ELSE "null"

\* A rotated face that also looks away, right after a GAZE_AWAY state.
C16_Witness ==
    /\ calls > 0
    /\ sample.faceCount = 1
    /\ sample.isRotated
    /\ sample.isLookingAway
    /\ prev.gazeDirection = "LEFT"
    /\ Has(flagState.currentFlags, "FACE_ROTATED")
    /\ flagState.gazeDirection = "null"

\* A state with no flag raised and two zero-face samples behind it.
TwoMissing == Run(<<Plain(0), Plain(0)>>)

\* LOW_LIGHT is raised next to the flag f, or alone when f is "none".
CoOccurs(f) ==
    \E state \in {createInitialState, TwoMissing} : \E analysis \in Samples :
        FlagSet(processAnalysis(state, analysis, 3).currentFlags) =
            {"LOW_LIGHT"} \cup ({f} \ {"none"})

\* C17: LOW_LIGHT is in the new flags exactly when the sample's brightness is
\* strictly below 50 (500 tenths), whatever the face-count branch: it is raised
\* next to MULTIPLE_FACES, FACE_MISSING, FACE_ROTATED, GAZE_AWAY, FACE_OK and
\* alone; a brightness of exactly 50 does not raise it.
C17_LowLight ==
    /\ now > 0 =>
          (Has(flagState.currentFlags, "LOW_LIGHT") <=> sample.brightness < 500)
    /\ now = 0 =>
          \A f \in {"MULTIPLE_FACES", "FACE_MISSING", "FACE_ROTATED",
                    "GAZE_AWAY", "FACE_OK", "none"} : CoOccurs(f)

\* A dim third zero-face sample: LOW_LIGHT next to FACE_MISSING.
C17_Witness ==
    /\ calls > 0
    /\ sample.brightness = 495
    /\ flagState.currentFlags = <<"FACE_MISSING", "LOW_LIGHT">>

SameFlags == FlagSet(flagState.currentFlags) = FlagSet(prev.currentFlags)

\* The gaze direction changed while still looking away.
GazeChanged ==
    /\ Has(prev.currentFlags, "GAZE_AWAY")
    /\ Has(flagState.currentFlags, "GAZE_AWAY")
    /\ prev.gazeDirection # flagState.gazeDirection

\* C18 as stated: whenever the flags computed for a sample equal, as an
\* unordered set, the previous state's currentFlags, the history is unchanged
\* by that processAnalysis call.
C18_RepeatAppendsNothing ==
    (now > 0 /\ SameFlags) => flagState.history = prev.history

\* C18 as amended: whenever the flags computed for a sample equal, as an
\* unordered set, the previous state's currentFlags, and the gaze direction did
\* not change while still looking away, the history is unchanged by that
\* processAnalysis call.
C18_RepeatSameGazeAppendsNothing ==
    (now > 0 /\ SameFlags /\ ~GazeChanged) => flagState.history = prev.history

\* Looking away to the left twice in a row: nothing is appended.
C18_Witness ==
    /\ calls > 1
    /\ SameFlags
    /\ Has(flagState.currentFlags, "GAZE_AWAY")
    /\ prev.gazeDirection = "LEFT"
    /\ flagState.gazeDirection = "LEFT"
    /\ prev.history # <<>>
    /\ flagState.history = prev.history

\* The entries of h that stay when one entry is appended.
Kept(h) == IF Len(h) < 20 THEN h ELSE Tail(h)

\* The entry e records the last sample and the new flags.
Records(e) ==
    /\ e.timestamp = now
    /\ e.flags = flagState.currentFlags
    /\ e.details.faceCount = sample.faceCount
    /\ e.details.isRotated = sample.isRotated
    /\ e.details.isLookingAway = sample.isLookingAway
    /\ e.details.gazeDirection =
          IF sample.gazeDirection = "undefined" THEN "null"
          ELSE sample.gazeDirection
    /\ 10 * e.details.brightness - 5 <= sample.brightness
    /\ sample.brightness < 10 * e.details.brightness + 5

\* C19: processAnalysis appends exactly one entry when the new flags differ
\* from the previous currentFlags as an unordered set or when the gaze direction
\* changed while still looking away, and nothing in every other case; the
\* appended entry records the new flags and the sample's faceCount, isRotated,
\* isLookingAway, gazeDirection (null when the sample has none) and rounded
\* brightness.
C19_HistoryPolicy ==
    now > 0 =>
        IF ~SameFlags \/ GazeChanged
        THEN /\ Len(flagState.history) = Len(Kept(prev.history)) + 1
             /\ SubSeq(flagState.history, 1, Len(flagState.history) - 1) =
                   Kept(prev.history)
             /\ Records(flagState.history[Len(flagState.history)])
        ELSE flagState.history = prev.history

\* Looking away to the left, then to the right: one entry is appended, with a
\* brightness of 49.5 recorded as 50.
C19_Witness ==
    /\ calls > 1
    /\ SameFlags
    /\ prev.gazeDirection = "LEFT"
    /\ flagState.gazeDirection = "RIGHT"
    /\ sample.brightness = 495
    /\ Len(flagState.history) = Len(prev.history) + 1
    /\ flagState.history[Len(flagState.history)].details.gazeDirection = "RIGHT"
    /\ flagState.history[Len(flagState.history)].details.brightness = 50

\* The last call appended an entry to a history of 20 entries.
AppendedToFull ==
    /\ now > 0
    /\ Len(prev.history) = 20
    /\ flagState.history # prev.history

\* C20: history eviction is FIFO: when an entry is appended to a history that
\* already holds 20 entries, the oldest entry is removed, the 19 remaining
\* entries keep their relative order and the new entry is last.
C20_FifoEviction ==
    AppendedToFull =>
        /\ Len(flagState.history) = 20
        /\ \A i \in 1..19 : flagState.history[i] = prev.history[i + 1]
        /\ \A i \in 1..20 : flagState.history[20] # prev.history[i]
        /\ flagState.history[20].timestamp = now
        /\ flagState.history[20].flags = flagState.currentFlags

\* An arbitrary sample evicts the oldest entry of a full history.
C20_Witness ==
    /\ calls > 0
    /\ AppendedToFull
    /\ prev.history[1].timestamp = 1
    /\ flagState.history[1].timestamp = 2

\* --------------------------------------------------- scheduler claims, again

\* The cycle that just ended emitted an error event.
ErrorEnded ==
    /\ op.name \in {"resume", "tick.captureFailed"}
    /\ Count(emitted, "error") >= 1

\* The last cycle failed on the detector's initialisation and nobody has
\* called detectFaces since.
InitFailed ==
    /\ last.thrown = "init"
    /\ analyzer.initPromise = "null"
    /\ ~isInitialized(analyzer)

\* A step in which detectFaces is called.
DetectFacesStep ==
    /\ op'.name \in {"tick.detect", "detectFaces"}
    /\ Len(waiters') + Len(microtasks') > Len(waiters) + Len(microtasks)

\* C28: a hard failure affects its own cycle only: after a cycle that ended
\* with an error event the processor is not busy and a tick of a live timer
\* passes processFrame's guard, and if the failure was a failed detector
\* initialisation the next detectFaces call starts a fresh initialisation
\* attempt and waits for it instead of getting the failed one.
C28_FailureThisCycleOnly ==
    /\ [](ErrorEnded => ~processor.isProcessing)
    /\ []((ErrorEnded /\ processor.timers # {}) => ~skipTick(processor))
    /\ []((ErrorEnded /\ last.thrown = "init") => InitFailed)
    /\ [][(InitFailed /\ DetectFacesStep) =>
              /\ analyzer'.initPromise = "pending"
              /\ analyzer'.initPc = "wasm"
              /\ analyzer'.iifes = analyzer.iifes + 1
              /\ waiters' = Append(waiters, waiters'[Len(waiters')])
              /\ microtasks' = microtasks]_vars

\* A cycle has just ended with the error of a failed initialisation; the timer
\* is live and no initialisation is running.
C28_Witness ==
    /\ ErrorEnded
    /\ InitFailed
    /\ emitted = <<[kind |-> "error", cause |-> "init"]>>
    /\ processor.timers # {}
    /\ analyzer.iifes = 0
    /\ microtasks = <<>>

\* C29: in every reachable scheduler state isDisabled and isRunning are never
\* both true: the step that sets isDisabled leaves no timer installed, and the
\* step that installs a timer leaves isDisabled false.
C29_DisabledNotRunning ==
    /\ [](~(getStatus(processor).isDisabled /\ getStatus(processor).isRunning))
    /\ [][(~processor.isDisabled /\ processor'.isDisabled) =>
              (processor'.intervalId = 0 /\ processor'.timers = {})]_vars
    /\ [][(processor.intervalId = 0 /\ processor'.intervalId # 0) =>
              ~processor'.isDisabled]_vars

\* start() has installed a timer after the breaker had tripped (the page still
\* shows the disabled banner).
C29_Witness ==
    /\ op.name = "start"
    /\ page.isDisabled
    /\ getStatus(processor).isRunning
    /\ ~getStatus(processor).isDisabled

\* C30: in every reachable scheduler state, under any interleaving of ticks,
\* cycle completions, start(), stop() and cleanup(), consecutiveOverruns is
\* between 0 and 3, and it is 3 exactly when isDisabled is true.
C30_OverrunsBounded ==
    /\ getStatus(processor).consecutiveOverruns \in 0..3
    /\ getStatus(processor).consecutiveOverruns = 3
          <=> getStatus(processor).isDisabled

\* cleanup() after the breaker tripped: still disabled, the counter still 3.
C30_Witness ==
    /\ op.name = "cleanup"
    /\ getStatus(processor) = [isRunning |-> FALSE, isProcessing |-> FALSE,
                               isDisabled |-> TRUE, consecutiveOverruns |-> 3]

\* --------------------------------------------------------- estimator claims

\* The landmark array has the 478 landmarks of a face.
Full == landmarks.present /\ landmarks.length >= 478

At(name) == landmarks.at[LANDMARKS[name]]

\* Squared distance between two landmarks that are present.
SqDist(p, q) == (p.x - q.x) * (p.x - q.x) + (p.y - q.y) * (p.y - q.y)

SqRight == SqDist(At("NOSE_TIP"), At("RIGHT_EAR"))

SqLeft == SqDist(At("NOSE_TIP"), At("LEFT_EAR"))

EarsPresent ==
    At("NOSE_TIP").present /\ At("RIGHT_EAR").present /\ At("LEFT_EAR").present

\* C22: for any landmark sequence shorter than 478, a missing one included,
\* analyzeRotation returns yaw UNKNOWN, roll UNKNOWN and isRotated false, and
\* analyzeGaze returns horizontalGaze, verticalGaze and gazeDirection UNKNOWN,
\* isLookingAway false and confidence 0.
C22_ShortIsNeutral ==
    (~landmarks.present \/ landmarks.length < 478) =>
        /\ rotation.done =>
              rotation.value =
                  [yaw |-> "UNKNOWN", roll |-> "UNKNOWN", isRotated |-> FALSE]
        /\ gaze.done =>
              /\ gaze.value.horizontalGaze = "UNKNOWN"
              /\ gaze.value.verticalGaze = "UNKNOWN"
              /\ gaze.value.gazeDirection = "UNKNOWN"
              /\ gaze.value.isLookingAway = FALSE
              /\ gaze.value.confidence.n = 0

\* 477 landmarks of a face turned to the left with both irises off-centre.
C22_Witness ==
    /\ landmarks.present
    /\ landmarks.length = 477
    /\ rotation.done
    /\ gaze.done
    /\ EarsPresent
    /\ SqRight = 1600
    /\ SqLeft = 10000
    /\ At("RIGHT_IRIS").x < 100
    /\ At("LEFT_IRIS").x < 160

C24_DegenerateYaw ==
    (Full /\ rotation.done
        /\ (~EarsPresent \/ SqRight = 0 \/ SqLeft = 0)) =>
        /\ rotation.value.yaw = "CENTER"
        /\ ~rotation.value.isRotated

\* The right ear coincides with the nose and the left ear is far away.
C24_Witness ==
    /\ Full
    /\ rotation.done
    /\ EarsPresent
    /\ SqRight = 0
    /\ SqLeft = 10000
    /\ rotation.value.yaw = "CENTER"

\* The iris of an eye sits at the midpoint of its two corners.
AtMidpoint(iris, inner, outer) ==
    /\ At(iris).present /\ At(inner).present /\ At(outer).present
    /\ 2 * At(iris).x = At(inner).x + At(outer).x

\* C25: gaze thresholds are strict and signed: horizontalGaze is LEFT when
\* avgHorizontal < -0.15, RIGHT when avgHorizontal > 0.15 and CENTER otherwise
\* (so an iris exactly at the midpoint of both eyes' corners gives CENTER);
\* verticalGaze is UP when avgVertical < -0.25, DOWN when avgVertical > 0.25
\* and CENTER otherwise.
C25_GazeThresholds ==
    (Full /\ gaze.done) =>
        LET avgH == gazeOffsets(landmarks).avgHorizontal
            avgV == gazeOffsets(landmarks).avgVertical
        IN  /\ gaze.value.horizontalGaze =
                  IF 100 * avgH.n < -15 * avgH.d THEN "LEFT"
                  ELSE IF 100 * avgH.n > 15 * avgH.d THEN "RIGHT"
                  ELSE "CENTER"
            /\ gaze.value.verticalGaze =
                  IF 100 * avgV.n < -25 * avgV.d THEN "UP"
                  ELSE IF 100 * avgV.n > 25 * avgV.d THEN "DOWN"
                  ELSE "CENTER"
            /\ (/\ AtMidpoint("RIGHT_IRIS", "RIGHT_EYE_INNER", "RIGHT_EYE_OUTER")
                /\ AtMidpoint("LEFT_IRIS", "LEFT_EYE_INNER", "LEFT_EYE_OUTER"))
                  => gaze.value.horizontalGaze = "CENTER"

\* Both averages exactly on a threshold: -0.15 and 0.25.
C25_Witness ==
    /\ Full
    /\ gaze.done
    /\ 100 * gazeOffsets(landmarks).avgHorizontal.n =
          -15 * gazeOffsets(landmarks).avgHorizontal.d
    /\ 100 * gazeOffsets(landmarks).avgVertical.n =
          25 * gazeOffsets(landmarks).avgVertical.d
    /\ gaze.value.horizontalGaze = "CENTER"
    /\ gaze.value.verticalGaze = "CENTER"

\* eyeHeight / eyeWidth >= 0.02 as JavaScript divides: anything positive over
\* zero is Infinity, zero over zero is NaN.
RatioOk(top, bottom, inner, outer) ==
    LET eyeHeight == Abs(At(bottom).y - At(top).y)
        eyeWidth == Abs(At(outer).x - At(inner).x)
    IN  IF eyeWidth > 0 THEN 100 * eyeHeight >= 2 * eyeWidth ELSE eyeHeight > 0

EyesPresent ==
    \A name \in {"RIGHT_IRIS", "RIGHT_EYE_INNER", "RIGHT_EYE_OUTER",
                 "RIGHT_EYE_TOP", "RIGHT_EYE_BOTTOM", "LEFT_IRIS",
                 "LEFT_EYE_INNER", "LEFT_EYE_OUTER", "LEFT_EYE_TOP",
                 "LEFT_EYE_BOTTOM"} : At(name).present

BothEyesOk ==
    /\ RatioOk("RIGHT_EYE_TOP", "RIGHT_EYE_BOTTOM", "RIGHT_EYE_INNER",
               "RIGHT_EYE_OUTER")
    /\ RatioOk("LEFT_EYE_TOP", "LEFT_EYE_BOTTOM", "LEFT_EYE_INNER",
               "LEFT_EYE_OUTER")

\* C26: an eye's vertical reading is valid only when eyeHeight / eyeWidth is
\* at least 0.02; the vertical offset is used only if both eyes are valid, and
\* when either eye is invalid verticalGaze is CENTER whatever the iris
\* positions.
C26_VerticalValidity ==
    (Full /\ gaze.done /\ EyesPresent) =>
        /\ gaze.value.details.vValid => BothEyesOk
        /\ ~BothEyesOk => gaze.value.verticalGaze = "CENTER"

\* The combined label of a vertical and a horizontal label.
Combined(v, h) ==
    IF v = "CENTER" /\ h = "CENTER" THEN "CENTER"
    ELSE IF v = "CENTER" THEN h
    ELSE IF h = "CENTER" THEN v
    ELSE v \o "_" \o h

\* C27: for a full landmark set gazeDirection is CENTER when both axes are
\* CENTER and otherwise the non-center labels joined with '_', the vertical
\* label first (one of LEFT, RIGHT, UP, DOWN, UP_LEFT, UP_RIGHT, DOWN_LEFT,
\* DOWN_RIGHT), and isLookingAway is true exactly when gazeDirection is not
\* CENTER.
C27_GazeDirection ==
    (Full /\ gaze.done) =>
        /\ gaze.value.gazeDirection =
              Combined(gaze.value.verticalGaze, gaze.value.horizontalGaze)
        /\ gaze.value.gazeDirection \in
              {"CENTER", "LEFT", "RIGHT", "UP", "DOWN", "UP_LEFT", "UP_RIGHT",
               "DOWN_LEFT", "DOWN_RIGHT"}
        /\ gaze.value.isLookingAway <=> gaze.value.gazeDirection # "CENTER"

\* Both irises up and to the left.
C27_Witness ==
    /\ Full
    /\ gaze.done
    /\ gaze.value.verticalGaze = "UP"
    /\ gaze.value.horizontalGaze = "LEFT"
    /\ gaze.value.gazeDirection = "UP_LEFT"
    /\ gaze.value.isLookingAway

\* ------------------------------------------------------------ purity claim

\* The flag state at address r of heap h, arrays and entries read through.
View(h, r) ==
    [currentFlags |-> h[h[r].currentFlags].items,
     gazeDirection |-> h[r].gazeDirection,
     consecutiveMissing |-> h[r].consecutiveMissing,
     lastUpdate |-> h[r].lastUpdate,
     history |->
        [i \in 1..Len(h[h[r].history].items) |->
            LET e == h[h[h[r].history].items[i]]
            IN  [timestamp |-> e.timestamp,
                 flags |-> h[e.flags].items,
                 details |-> e.details]]]

\* C21: processAnalysis is pure with respect to its state argument: the input
\* state (currentFlags, gazeDirection, consecutiveMissing, lastUpdate and
\* every existing history entry) is the same before and after the call, and
\* the result is a new snapshot: an object that did not exist before the call
\* and holds the state the call computes.
C21_InputUntouched ==
    heapCalls > 0 =>
        /\ View(heap, prevRef) = View(before, prevRef)
        /\ \A a \in 1..Len(before) : heap[a] = before[a]
        /\ stateRef > Len(before)
        /\ heap[stateRef].currentFlags > Len(before)
        /\ View(heap, stateRef) =
              processAnalysis(View(before, prevRef), heapIn.analysis,
                              heapIn.timestamp)

\* The second call appended an entry to a history that had one: the input
\* state still has its one entry, the result has two.
C21_Witness ==
    /\ heapCalls = 2
    /\ Len(View(heap, prevRef).history) = 1
    /\ Len(View(heap, stateRef).history) = 2
    /\ heap[stateRef].history # heap[prevRef].history

\* The analysis event of the cycle that just completed its overrun check.
SampleEvent ==
    [kind |-> "analysis",
     sample |-> [faceCount |-> last.faceCount,
                 brightness |-> last.brightness,
                 processingTime |-> last.processingTime]]

\* C31: an over-budget cycle raises consecutiveOverruns by one; when that
\* brings it to 1 or 2 the cycle emits, first and once, an analysis event
\* carrying its sample and no disabled event; when it brings it to 3 the cycle
\* emits no analysis event.  Among the cycles that reach the overrun check,
\* only the one that brings the counter to 3 is without analysis event.
C31_SoftOverrunReports ==
    [][(ResumeStep /\ last'.timed)
        => /\ overBudget(last'.processingTime)
              => /\ processor'.consecutiveOverruns
                        = processor.consecutiveOverruns + 1
                 /\ processor'.consecutiveOverruns \in 1..MAX_CONSECUTIVE_OVERRUNS
                 /\ processor'.consecutiveOverruns < MAX_CONSECUTIVE_OVERRUNS
                       => /\ Count(emitted', "analysis") = 1
                          /\ emitted'[1] = SampleEvent'
                          /\ Count(emitted', "disabled") = 0
                          /\ ~processor'.isDisabled
           /\ Count(emitted', "analysis") = 0
                 <=> /\ overBudget(last'.processingTime)
                     /\ processor'.consecutiveOverruns = MAX_CONSECUTIVE_OVERRUNS]_vars

C31_Witness ==
    /\ op.name = "resume"
    /\ last.timed /\ overBudget(last.processingTime)
    /\ processor.consecutiveOverruns = 2
    /\ emitted = <<SampleEvent>>
    /\ processor.intervalId # 0

\* A step taken while no timer is installed: stop() has run, or cleanup(), or
\* the breaker, and start() has not run since.
Stopped == processor.intervalId = 0 /\ processor.timers = {}

\* C32: after stop() and until the next start() no new cycle begins; a cycle
\* in flight at the time of stop() still runs to completion, and it is the
\* only one, so at most one further event is emitted; that cycle may set
\* isDisabled.  Nothing but start() installs a timer again.
C32_StoppedEmitsOnce ==
    [][Stopped
        => /\ op'.name \notin {"tick.detect", "tick.captureFailed"}
           /\ InFlight' <= InFlight
           /\ InFlight <= 1
           /\ IF ResumeStep
              THEN InFlight' = 0 /\ ~processor'.isProcessing /\ Len(emitted') <= 1
              ELSE emitted' = emitted
           /\ (~Stopped' => op'.name \in {"start", "startAnalysis"})]_vars

\* C33: cleanup() while a cycle awaits the detector releases the canvas, and
\* the canvas stays released until that cycle resumes; when the detector call
\* then returns a result, sampling the brightness raises: the cycle emits
\* exactly one error event, whose cause is the sampling, emits no analysis
\* event, leaves consecutiveOverruns alone and clears isProcessing.
C33_CleanupUnderCycle ==
    [][/\ (op'.name = "cleanup" /\ InFlight > 0)
          => (~processor'.canvas /\ InFlight' = InFlight)
       /\ (InFlight > 0 /\ ~processor.canvas /\ ~ResumeStep)
          => (~processor'.canvas /\ InFlight' > 0)
       /\ (ResumeStep /\ ~processor.canvas)
          => /\ last'.thrown \in {"init", "detector", "brightness"}
             /\ (Head(microtasks).settled = "fulfilled"
                   /\ last'.thrown # "detector") => last'.thrown = "brightness"
             /\ emitted' = <<[kind |-> "error", cause |-> last'.thrown]>>
             /\ Count(emitted', "analysis") = 0
             /\ processor'.consecutiveOverruns = processor.consecutiveOverruns
             /\ ~processor'.isProcessing]_vars

C33_Witness ==
    /\ op.name = "resume"
    /\ last.thrown = "brightness"
    /\ emitted = <<[kind |-> "error", cause |-> "brightness"]>>
    /\ ~processor.isProcessing
    /\ ~processor.canvas
    /\ isInitialized(analyzer)

\* The cycle's `await detectFaces(frame)` has not settled.
Awaiting == \E i \in 1..Len(waiters) : waiters[i] = "cycle"

\* C34: for as long as the detector call of a cycle has not settled,
\* isProcessing stays true, every tick is dropped without effect, no event is
\* emitted, isDisabled stays false and consecutiveOverruns never grows, and
\* stop() and start() change the timer but not isProcessing.
C34_NoTimeout ==
    [][(Awaiting /\ Awaiting')
        => /\ processor.isProcessing /\ processor'.isProcessing
           /\ op'.name \notin {"tick.detect", "tick.captureFailed", "resume"}
           /\ op'.name = "tick.skipped" => processor' = processor
           /\ emitted' = emitted
           /\ page' = page \/ op'.name = "startAnalysis"
           /\ ~processor.isDisabled /\ ~processor'.isDisabled
           /\ processor'.consecutiveOverruns <= processor.consecutiveOverruns
           /\ InFlight' = 1
           /\ op'.name = "stop" => processor'.intervalId = 0
           /\ (op'.name = "start" /\ processor.intervalId = 0)
                 => (processor'.intervalId # 0 /\ processor'.isProcessing)]_vars

\* A tick dropped after cleanup() (which stops the timer) and start() were
\* called under the cycle that is still waiting.
C34_Witness ==
    /\ op.name = "tick.skipped"
    /\ Awaiting
    /\ processor.isProcessing
    /\ ~processor.isDisabled
    /\ processor.intervalId # 0
    /\ ~processor.canvas

\* The history of a flag state agrees with its current flags.
LastEntryMatches(state) ==
    IF state.history = <<>>
    THEN state.currentFlags = <<>>
    ELSE FlagSet(state.history[Len(state.history)].flags)
            = FlagSet(state.currentFlags)

\* C35: after any sequence of processAnalysis calls from the initial state,
\* an empty history comes with empty currentFlags, and otherwise the flags of
\* the last history entry equal currentFlags as a set (in both variants).
C35_HistoryTracksFlags ==
    /\ LastEntryMatches(flagState)
    /\ LastEntryMatches(countState)

\* A call that appended nothing to a non-empty history, with two flags set.
C35_Witness ==
    /\ calls > 0
    /\ flagState.history # <<>>
    /\ flagState.history = prev.history
    /\ Len(flagState.currentFlags) = 2
    /\ LastEntryMatches(flagState)

\* The flags that describe the face; LOW_LIGHT is the only other flag.
PrimaryFlags ==
    {"MULTIPLE_FACES", "FACE_MISSING", "FACE_ROTATED", "GAZE_AWAY", "FACE_OK"}

\* How many face flags an array holds, counting repetitions.
Primaries(flags) ==
    Cardinality({i \in 1..Len(flags) : flags[i] \in PrimaryFlags})

\* At most one face flag, and none exactly in the debounce window of a
\* zero-face sample, where nothing but LOW_LIGHT is set.
OnePrimary(state) ==
    /\ Primaries(state.currentFlags) <= 1
    /\ Primaries(state.currentFlags) = 0
          <=> (sample.faceCount = 0
               /\ state.consecutiveMissing < FACE_MISSING_THRESHOLD)
    /\ Primaries(state.currentFlags) = 0
          => FlagSet(state.currentFlags) \subseteq {"LOW_LIGHT"}
    /\ FlagSet(state.currentFlags) \subseteq PrimaryFlags \cup {"LOW_LIGHT"}

\* C36: after every processAnalysis call currentFlags holds at most one of
\* MULTIPLE_FACES, FACE_MISSING, FACE_ROTATED, GAZE_AWAY and FACE_OK, and
\* none of them exactly when the sample had faceCount = 0 and the resulting
\* consecutiveMissing is below 3; the set is then empty or only LOW_LIGHT
\* (in both variants).
C36_OnePrimaryFlag ==
    now > 0 => (OnePrimary(flagState) /\ OnePrimary(countState))

C36_Witness ==
    /\ calls > 0
    /\ sample.faceCount = 0
    /\ flagState.consecutiveMissing = FACE_MISSING_THRESHOLD - 1
    /\ flagState.currentFlags = <<"LOW_LIGHT">>
    /\ Primaries(prev.currentFlags) = 0

====
